---- MODULE Spec2Model ----
(***************************************************************************)
(* Lexer and recursive-descent parser of the CustomLanguage front end      *)
(* (compiler/lexer.py, compiler/parser.py).                                *)
(*                                                                         *)
(* The input text is a sequence of one-character strings.  The lexer is a *)
(* record  [pos, lineno, column, current_token, saved, err] ; err is      *)
(* "none" while no exception is propagating and otherwise the class of    *)
(* the exception that was raised (the other fields are then the fields of *)
(* the object at the moment of the raise).                                 *)
(***************************************************************************)
EXTENDS Integers, Sequences, FiniteSets, TLC

VARIABLES text, lexer, last, steps

vars == <<text, lexer, last, steps>>

(***************************************************************************)
(* Characters.                                                             *)
(***************************************************************************)
None == "<None>"

LowerCase == <<"a","b","c","d","e","f","g","h","i","j","k","l","m",
               "n","o","p","q","r","s","t","u","v","w","x","y","z">>

UpperCase == <<"A","B","C","D","E","F","G","H","I","J","K","L","M",
               "N","O","P","Q","R","S","T","U","V","W","X","Y","Z">>

Digits == <<"0","1","2","3","4","5","6","7","8","9">>

Range(f) == {f[i] : i \in DOMAIN f}

IndexOf(seq, c) == CHOOSE i \in DOMAIN seq : seq[i] = c

isalpha(c) == c \in Range(LowerCase) \cup Range(UpperCase)

is_digit(c) == c \in Range(Digits)

isalnum(c) == isalpha(c) \/ is_digit(c)

isspace(c) == c \in {" ", "\n", "\t", "\r"}

upper(c) == IF c \in Range(LowerCase) THEN UpperCase[IndexOf(LowerCase, c)] ELSE c

lower(c) == IF c \in Range(UpperCase) THEN LowerCase[IndexOf(UpperCase, c)] ELSE c

str_upper(s) == [i \in DOMAIN s |-> upper(s[i])]

str_lower(s) == [i \in DOMAIN s |-> lower(s[i])]

(***************************************************************************)
(* Token kinds (utils/constants.py) and tokens (utils/data_classes.py).    *)
(* A token is [type, value, num, scale]: value is the text the token      *)
(* carries (the kind's name for fixed tokens), num/scale the numeric      *)
(* value num * 10^-scale of a number literal.                              *)
(***************************************************************************)
EOF == "EOF"
ID == "ID"
INTEGER == "INTEGER"
FLOAT == "FLOAT"
TK_STRING == "STRING"
TK_BOOLEAN == "BOOLEAN"
REAL == "REAL"
OBJECT == "OBJECT"
PROGRAM == "PROGRAM"
VAR == "VAR"
FUNCTION == "FUNCTION"
TK_IF == "IF"
ELIF == "ELIF"
TK_ELSE == "ELSE"
FOR == "FOR"
BREAK == "BREAK"
RETURN == "RETURN"
AND == "AND"
OR == "OR"
NOT == "NOT"
LPARENT == "LPARENT"
RPARENT == "RPARENT"
LCBRACE == "LCBRACE"
RCBRACE == "RCBRACE"
COLON == "COLON"
COMMA == "COMMA"
SEMI == "SEMI"
DOT == "DOT"
PLUS == "PLUS"
MINUS == "MINUS"
MULT == "MULT"
DIV == "DIV"
FLOAT_DIV == "FLOAT_DIV"
INTEGER_DIV == "INTEGER_DIV"
ASSIGN == "ASSIGN"
GREATER_THAN == "GREATER_THAN"
GREATER_THAN_OR_EQUAL == "GREATER_THAN_OR_EQUAL"
LESS_THAN == "LESS_THAN"
LESS_THAN_OR_EQUAL == "LESS_THAN_OR_EQUAL"
IS_EQUAL == "IS_EQUAL"
NOT_EQUAL == "NOT_EQUAL"

Token(type, value) == [type |-> type, value |-> value, num |-> 0, scale |-> 0]

NumToken(type, value, num, scale) ==
    [type |-> type, value |-> value, num |-> num, scale |-> scale]

FixedToken(type) == Token(type, <<type>>)

NoToken == Token("None", <<>>)

(***************************************************************************)
(* system/reserved.py: the keyword table, keyed by the upper-case word.    *)
(***************************************************************************)
RESERVED_KEYWORDS ==
       (<<"P","R","O","G","R","A","M">> :> FixedToken(PROGRAM))
    @@ (<<"V","A","R">> :> FixedToken(VAR))
    @@ (<<"F","U","N","C","T","I","O","N">> :> FixedToken(FUNCTION))
    @@ (<<"I","F">> :> FixedToken(TK_IF))
    @@ (<<"E","L","I","F">> :> FixedToken(ELIF))
    @@ (<<"E","L","S","E">> :> FixedToken(TK_ELSE))
    @@ (<<"F","O","R">> :> FixedToken(FOR))
    @@ (<<"B","R","E","A","K">> :> FixedToken(BREAK))
    @@ (<<"R","E","T","U","R","N">> :> FixedToken(RETURN))
    @@ (<<"A","N","D">> :> FixedToken(AND))
    @@ (<<"O","R">> :> FixedToken(OR))
    @@ (<<"N","O","T">> :> FixedToken(NOT))
    @@ (<<"T","R","U","E">> :> Token(TK_BOOLEAN, <<"TRUE">>))
    @@ (<<"F","A","L","S","E">> :> Token(TK_BOOLEAN, <<"FALSE">>))
    @@ (<<"I","N","T","E","G","E","R">> :> FixedToken(INTEGER))
    @@ (<<"R","E","A","L">> :> FixedToken(REAL))
    @@ (<<"S","T","R","I","N","G">> :> FixedToken(TK_STRING))
    @@ (<<"B","O","O","L","E","A","N">> :> FixedToken(TK_BOOLEAN))
    @@ (<<"O","B","J","E","C","T">> :> FixedToken(OBJECT))

get_reserved_keyword_token(w) == RESERVED_KEYWORDS[w]

(***************************************************************************)
(* Lexer: construction state, exceptions, snapshots.                       *)
(***************************************************************************)
NoErr == "none"

Raise(s, kind) == [s EXCEPT !.err = kind]

Ok(s) == s.err = NoErr

\* Lexer.__init__ before its call of get_next_token.  underflow is a history
\* field: it records that use_saved_state was called with no snapshot saved
NewLexer ==
    [pos |-> 0, lineno |-> 1, column |-> 1, current_token |-> NoToken,
     saved |-> <<>>, err |-> NoErr, underflow |-> FALSE]

\* get_character: None at the end of the text, an exception beyond it
CanGetCharacter(pos) == pos <= Len(text)

get_character(pos) == IF pos = Len(text) THEN None ELSE text[pos + 1]

get_current_character(s) == get_character(s.pos)

is_pointer_out_of_text(s) == s.pos >= Len(text)

\* Lexer.error formats the current character before raising LexerError
LexerError(s) ==
    IF CanGetCharacter(s.pos) THEN Raise(s, "LexerError") ELSE Raise(s, "Exception")

Snapshot(s) ==
    [pos |-> s.pos, lineno |-> s.lineno, column |-> s.column,
     current_token |-> s.current_token]

save_current_state(s) == [s EXCEPT !.saved = Append(@, Snapshot(s))]

\* use_saved_state with a snapshot that lacks the column
use_saved_state_without_column(s) ==
    IF ~Ok(s) THEN s
    ELSE IF Len(s.saved) = 0 THEN [LexerError(s) EXCEPT !.underflow = TRUE]
    ELSE LET top == s.saved[Len(s.saved)] IN
         [s EXCEPT !.saved = SubSeq(@, 1, Len(@) - 1),
                   !.pos = top.pos, !.lineno = top.lineno,
                   !.current_token = top.current_token]

use_saved_state(s) ==
    IF ~Ok(s) THEN s
    ELSE IF Len(s.saved) = 0 THEN [LexerError(s) EXCEPT !.underflow = TRUE]
    ELSE LET top == s.saved[Len(s.saved)] IN
         [s EXCEPT !.saved = SubSeq(@, 1, Len(@) - 1),
                   !.pos = top.pos, !.lineno = top.lineno,
                   !.column = top.column, !.current_token = top.current_token]

\* one iteration of the loop of Lexer.advance
advance1(s) ==
    IF ~Ok(s) THEN s
    ELSE IF ~CanGetCharacter(s.pos) THEN Raise(s, "Exception")
    ELSE IF get_current_character(s) = "\n"
         THEN [s EXCEPT !.lineno = @ + 1, !.column = 1, !.pos = @ + 1]
         ELSE [s EXCEPT !.column = @ + 1, !.pos = @ + 1]

RECURSIVE advance(_, _)
advance(s, num_of_chars) ==
    IF num_of_chars = 0 \/ ~Ok(s) THEN s
    ELSE advance(advance1(s), num_of_chars - 1)

RECURSIVE next_characters_loop(_, _, _)
next_characters_loop(s, chars, i) ==
    IF ~Ok(s) THEN [st |-> s, ret |-> FALSE]
    ELSE IF i > Len(chars) THEN [st |-> use_saved_state(s), ret |-> TRUE]
    ELSE IF ~CanGetCharacter(s.pos) THEN [st |-> Raise(s, "Exception"), ret |-> FALSE]
    ELSE IF get_character(s.pos) # chars[i]
         THEN [st |-> use_saved_state(s), ret |-> FALSE]
         ELSE next_characters_loop(advance1(s), chars, i + 1)

\* next_characters_are without its save_current_state
next_characters_are_unsaved(s, chars) == next_characters_loop(s, chars, 1)

next_characters_are(s, chars) ==
    next_characters_loop(save_current_state(s), chars, 1)

(***************************************************************************)
(* Lexer: scanners.                                                        *)
(***************************************************************************)
is_operator(p) == p \in {"+", "-", "*", "/", "(", ")"}

get_char_type(p) ==
    CASE p = "+" -> PLUS
      [] p = "-" -> MINUS
      [] p = "*" -> MULT
      [] p = "/" -> FLOAT_DIV
      [] p = "(" -> LPARENT
      [] p = ")" -> RPARENT

\* the while loop of _id: [st, result]
RECURSIVE id_loop(_, _)
id_loop(s, result) ==
    IF ~Ok(s) THEN [st |-> s, result |-> result]
    ELSE IF ~CanGetCharacter(s.pos) THEN [st |-> Raise(s, "Exception"), result |-> result]
    ELSE IF get_current_character(s) # None /\ isalnum(get_current_character(s))
         THEN id_loop(advance1(s), Append(result, get_current_character(s)))
         ELSE [st |-> s, result |-> result]

\* _id followed by the assignment to current_token
ScanId(s) ==
    LET r == id_loop(s, <<>>) IN
    IF ~Ok(r.st) THEN r.st
    ELSE IF str_upper(r.result) \in DOMAIN RESERVED_KEYWORDS
         THEN [r.st EXCEPT !.current_token = get_reserved_keyword_token(str_upper(r.result))]
    ELSE IF str_lower(r.result) \in DOMAIN RESERVED_KEYWORDS
         THEN [r.st EXCEPT !.current_token = get_reserved_keyword_token(str_lower(r.result))]
    ELSE [r.st EXCEPT !.current_token = Token(ID, r.result)]

\* the while loop of _string: appending None to a str is a TypeError
RECURSIVE string_loop(_, _, _)
string_loop(s, cur_char, string) ==
    IF ~Ok(s) THEN [st |-> s, result |-> string]
    ELSE IF ~CanGetCharacter(s.pos) THEN [st |-> Raise(s, "Exception"), result |-> string]
    ELSE IF get_current_character(s) # cur_char
         THEN IF get_current_character(s) = None
              THEN [st |-> Raise(s, "TypeError"), result |-> string]
              ELSE string_loop(advance1(s), cur_char, Append(string, get_current_character(s)))
         ELSE [st |-> s, result |-> string]

\* _string followed by the assignment to current_token
ScanString(s) ==
    LET r == string_loop(advance1(s), get_current_character(s), <<>>) IN
    IF ~Ok(r.st) THEN r.st
    ELSE [advance1(r.st) EXCEPT !.current_token = Token(TK_STRING, r.result)]

\* the while loop of _number
RECURSIVE number_loop(_, _)
number_loop(s, cur_char) ==
    LET a == advance1(s) IN
    IF ~Ok(a) THEN [st |-> a, result |-> cur_char]
    ELSE IF ~CanGetCharacter(a.pos) THEN [st |-> Raise(a, "Exception"), result |-> cur_char]
    ELSE IF is_digit(get_current_character(a)) \/ get_current_character(a) = "."
         THEN number_loop(a, Append(cur_char, get_current_character(a)))
         ELSE [st |-> a, result |-> cur_char]

count(str, c) == Cardinality({i \in DOMAIN str : str[i] = c})

DigitValue(c) == IndexOf(Digits, c) - 1

\* int() of a string of digits
RECURSIVE int(_)
int(str) ==
    IF Len(str) = 0 THEN 0
    ELSE 10 * int(SubSeq(str, 1, Len(str) - 1)) + DigitValue(str[Len(str)])


\* float() that takes the digits and leaves the dot out
float_dot_ignored(str) ==
    [num |-> int(SelectSeq(str, LAMBDA c : c # ".")), scale |-> 0]

\* float() of digits with one dot, as [num, scale] with num * 10^-scale
\* the value and no trailing zero in the fraction
RECURSIVE Normalise(_, _)
Normalise(num, scale) ==
    IF scale > 0 /\ num % 10 = 0 THEN Normalise(num \div 10, scale - 1)
    ELSE [num |-> num, scale |-> scale]

float(str) ==
    LET dot == CHOOSE i \in DOMAIN str : str[i] = "." IN
    Normalise(int(SelectSeq(str, LAMBDA c : c # ".")), Len(str) - dot)

\* _number followed by the assignment to current_token
ScanNumber(s) ==
    LET r == number_loop(s, <<get_current_character(s)>>) IN
    IF ~Ok(r.st) THEN r.st
    ELSE IF count(r.result, ".") > 1 THEN LexerError(r.st)
    ELSE IF count(r.result, ".") = 0
         THEN [r.st EXCEPT !.current_token = NumToken(INTEGER, r.result, int(r.result), 0)]
         ELSE [r.st EXCEPT !.current_token =
                   NumToken(FLOAT, r.result, float(r.result).num, float(r.result).scale)]

RECURSIVE skip_comment_loop(_)
skip_comment_loop(s) ==
    IF ~Ok(s) THEN s
    ELSE IF ~CanGetCharacter(s.pos) THEN Raise(s, "Exception")
    ELSE IF get_current_character(s) # "}" THEN skip_comment_loop(advance1(s))
    ELSE s

skip_comment(s) ==
    LET a == skip_comment_loop(s) IN
    IF ~Ok(a) THEN a
    ELSE LET cur_char == get_current_character(a)
             b == advance1(a)
             next_char == get_current_character(b)
         IN  IF cur_char # next_char \/ cur_char # "}"
             THEN \* the message is built before error() is called: adding None
                  \* is a TypeError, and format() rejects the template's lone "}"
                  IF next_char = None THEN Raise(b, "TypeError") ELSE Raise(b, "ValueError")
             ELSE advance1(b)

RECURSIVE skip_one_line_comment_loop(_)
skip_one_line_comment_loop(s) ==
    IF ~Ok(s) THEN s
    ELSE IF ~CanGetCharacter(s.pos) THEN Raise(s, "Exception")
    ELSE IF get_current_character(s) # "\n" THEN skip_one_line_comment_loop(advance1(s))
    ELSE s

skip_one_line_comment(s) == advance1(skip_one_line_comment_loop(s))

RECURSIVE skip_whitespace(_)
skip_whitespace(s) ==
    IF ~Ok(s) THEN s
    ELSE IF ~CanGetCharacter(s.pos) THEN Raise(s, "Exception")
    ELSE IF get_current_character(s) # None /\ isspace(get_current_character(s))
         THEN skip_whitespace(advance1(s))
         ELSE s

\* advance(n) and the assignment of a fixed token
Emit(s, n, type) ==
    LET a == advance(s, n) IN
    IF ~Ok(a) THEN a ELSE [a EXCEPT !.current_token = FixedToken(type)]

RECURSIVE get_next_token(_)
\* the branches of get_next_token from the single-character operators on;
\* each next_characters_are hands its lexer on to the next test
TokenFromPunctuation(s, cur_char) ==
    IF is_operator(cur_char)
    THEN LET a == advance1(s) IN
         IF ~Ok(a) THEN a
         ELSE [a EXCEPT !.current_token = Token(get_char_type(cur_char), <<cur_char>>)]
    ELSE IF cur_char = "." THEN Emit(s, 1, DOT)
    ELSE IF cur_char = ";" THEN Emit(s, 1, SEMI)
    ELSE LET c == next_characters_are(s, <<"{", "{">>) IN
    IF ~Ok(c.st) THEN c.st
    ELSE IF c.ret THEN get_next_token(skip_comment(c.st))
    ELSE IF cur_char = "{" THEN Emit(c.st, 1, LCBRACE)
    ELSE IF cur_char = "}" THEN Emit(c.st, 1, RCBRACE)
    ELSE IF cur_char = ":" THEN Emit(c.st, 1, COLON)
    ELSE IF cur_char = "," THEN Emit(c.st, 1, COMMA)
    ELSE IF cur_char = "." THEN Emit(c.st, 1, DOT)
    ELSE LET ne == next_characters_are(c.st, <<"!", "=">>) IN
    IF ~Ok(ne.st) THEN ne.st
    ELSE IF ne.ret THEN Emit(ne.st, 2, NOT_EQUAL)
    ELSE LET ge == next_characters_are(ne.st, <<">", "=">>) IN
    IF ~Ok(ge.st) THEN ge.st
    ELSE IF ge.ret THEN Emit(ge.st, 2, GREATER_THAN_OR_EQUAL)
    ELSE LET le == next_characters_are(ge.st, <<"<", "=">>) IN
    IF ~Ok(le.st) THEN le.st
    ELSE IF le.ret THEN Emit(le.st, 2, LESS_THAN_OR_EQUAL)
    ELSE IF cur_char = ">" THEN Emit(le.st, 1, GREATER_THAN)
    ELSE IF cur_char = "<" THEN Emit(le.st, 1, LESS_THAN)
    ELSE LET eq == next_characters_are(le.st, <<"=", "=">>) IN
    IF ~Ok(eq.st) THEN eq.st
    ELSE IF eq.ret THEN Emit(eq.st, 2, IS_EQUAL)
    ELSE IF cur_char = "=" THEN Emit(eq.st, 1, ASSIGN)
    ELSE IF cur_char = "!" THEN Emit(eq.st, 1, NOT)
    ELSE IF isspace(cur_char) THEN get_next_token(skip_whitespace(eq.st))
    ELSE LexerError(eq.st)

\* the branches of get_next_token from the line comment to the identifier
TokenFromWord(s, cur_char) ==
    LET c == next_characters_are(s, <<"/", "/">>) IN
    IF ~Ok(c.st) THEN c.st
    ELSE IF c.ret THEN get_next_token(skip_one_line_comment(c.st))
    ELSE LET o == next_characters_are(c.st, <<"o", "r">>) IN
    IF ~Ok(o.st) THEN o.st
    ELSE IF o.ret THEN Emit(o.st, 2, OR)
    ELSE LET a == next_characters_are(o.st, <<"a", "n", "d">>) IN
    IF ~Ok(a.st) THEN a.st
    ELSE IF a.ret THEN Emit(a.st, 3, AND)
    ELSE LET i == next_characters_are(a.st, <<"i", "f">>) IN
    IF ~Ok(i.st) THEN i.st
    ELSE IF i.ret THEN Emit(i.st, 2, TK_IF)
    ELSE LET ei == next_characters_are(i.st, <<"e", "l", "i", "f">>) IN
    IF ~Ok(ei.st) THEN ei.st
    ELSE IF ei.ret THEN Emit(ei.st, 4, ELIF)
    ELSE LET el == next_characters_are(ei.st, <<"e", "l", "s", "e">>) IN
    IF ~Ok(el.st) THEN el.st
    ELSE IF el.ret THEN Emit(el.st, 4, TK_ELSE)
    ELSE IF isalpha(cur_char) THEN ScanId(el.st)
    ELSE TokenFromPunctuation(el.st, cur_char)

get_next_token(s) ==
    IF ~Ok(s) THEN s
    ELSE IF ~CanGetCharacter(s.pos) THEN Raise(s, "Exception")
    ELSE LET cur_char == get_current_character(s) IN
    IF cur_char = None THEN [s EXCEPT !.current_token = FixedToken(EOF)]
    ELSE IF is_digit(cur_char) THEN ScanNumber(s)
    ELSE IF cur_char \in {"'", "\""} THEN ScanString(s)
    ELSE TokenFromWord(s, cur_char)

go_forward(s) == get_next_token(s)

\* peek_next_token that puts back current_token and leaves pos where the
\* scan ended
peek_next_token_pos_kept(s) ==
    LET n == get_next_token(s) IN
    IF ~Ok(n) THEN [st |-> n, ret |-> NoToken]
    ELSE [st |-> [n EXCEPT !.current_token = s.current_token],
          ret |-> n.current_token]

\* peek_next_token: [st, ret]; pos and current_token are put back
peek_next_token(s) ==
    LET n == get_next_token(s) IN
    IF ~Ok(n) THEN [st |-> n, ret |-> NoToken]
    ELSE [st |-> [n EXCEPT !.pos = s.pos, !.current_token = s.current_token],
          ret |-> n.current_token]

(***************************************************************************)
(* Parser: error reporting, match and the lookahead probes.  An operation  *)
(* that returns a value yields [st, ret] or [st, node].                    *)
(***************************************************************************)
\* the methods call one another through Call, which is defined after them
RECURSIVE Call(_, _, _)

SurroundingTokens == 5

RECURSIVE surrounding_loop(_, _)
surrounding_loop(s, i) ==
    IF i = 0 \/ ~Ok(s) THEN s
    ELSE IF s.current_token.type # EOF
         THEN surrounding_loop(Call("go_forward", s, <<>>), i - 1)
    ELSE surrounding_loop(s, i - 1)

print_surrounding_tokens(s) ==
    use_saved_state(surrounding_loop(save_current_state(s), SurroundingTokens))

\* Parser.error: the diagnostic capture, then ParserError
error(s) ==
    LET p == Call("print_surrounding_tokens", s, <<>>) IN
    IF ~Ok(p) THEN p ELSE Raise(p, "ParserError")

match(s, token_type) ==
    IF ~Ok(s) THEN s
    ELSE IF s.current_token.type # token_type THEN Call("error", s, <<>>)
    ELSE Call("go_forward", s, <<>>)

\* the for loop of next_tokens_are: [st, ret] before use_saved_state
RECURSIVE next_tokens_loop(_, _, _)
next_tokens_loop(s, args, i) ==
    IF ~Ok(s) THEN [st |-> s, ret |-> FALSE]
    ELSE IF i > Len(args) THEN [st |-> s, ret |-> TRUE]
    ELSE IF s.current_token.type # args[i] THEN [st |-> s, ret |-> FALSE]
    ELSE next_tokens_loop(Call("go_forward", s, <<>>), args, i + 1)

next_tokens_are(s, args) ==
    LET r == next_tokens_loop(save_current_state(s), args, 1) IN
    [st |-> use_saved_state(r.st), ret |-> r.ret]

next_token_is(s, token_type) == Call("next_tokens_are", s, <<token_type>>)


\* the while loop of match_next_tokens_to_any; token is the loop variable,
\* which the loop condition reads before the body refreshes it from the lexer
RECURSIVE match_any_loop(_, _, _)
match_any_loop(s, token, token_types) ==
    IF ~Ok(s) THEN [st |-> s, ret |-> FALSE]
    ELSE IF token.type \in {SEMI, LCBRACE, EOF} THEN [st |-> use_saved_state(s), ret |-> FALSE]
    ELSE IF s.current_token.type \in token_types
         THEN [st |-> use_saved_state(s), ret |-> TRUE]
         ELSE match_any_loop(Call("go_forward", s, <<>>), s.current_token, token_types)

match_next_tokens_to_any(s, token_types) ==
    match_any_loop(save_current_state(s), s.current_token, token_types)

is_function_call(s) == Call("next_tokens_are", s, <<ID, LPARENT>>)

is_assignment(s) == Call("next_tokens_are", s, <<ID, ASSIGN>>)

is_declaration(s) == s.current_token.type \in {VAR, FUNCTION}

is_if_statement(s) == Call("next_tokens_are", s, <<TK_IF>>)

is_for_loop(s) == Call("next_tokens_are", s, <<FOR>>)

is_break(s) == Call("next_tokens_are", s, <<BREAK>>)

is_return_stat(s) == Call("next_token_is", s, RETURN)

is_next_function_call(s) == Call("next_tokens_are", s, <<ID, LPARENT>>)

BoolMarkers ==
    {AND, OR, TK_BOOLEAN, NOT, NOT_EQUAL, GREATER_THAN, GREATER_THAN_OR_EQUAL,
     LESS_THAN, LESS_THAN_OR_EQUAL, IS_EQUAL}

ExprMarkers == {MULT, DIV, FLOAT_DIV, MINUS, PLUS, ID, INTEGER, FLOAT}

StrMarkers == {TK_STRING}

is_next_bool_expr(s) == Call("match_next_tokens_to_any", s, BoolMarkers)

is_next_expr(s) == Call("match_next_tokens_to_any", s, ExprMarkers)

is_next_str_expr(s) == Call("match_next_tokens_to_any", s, StrMarkers)

\* is_compound_statement: the probes in order, stopping at the first True
is_compound_statement(s) ==
    LET a == Call("is_function_call", s, <<>>) IN
    IF ~Ok(a.st) \/ a.ret THEN a
    ELSE LET b == Call("is_assignment", a.st, <<>>) IN
    IF ~Ok(b.st) \/ b.ret THEN b
    ELSE IF is_declaration(b.st) THEN [st |-> b.st, ret |-> TRUE]
    ELSE LET c == Call("is_if_statement", b.st, <<>>) IN
    IF ~Ok(c.st) \/ c.ret THEN c
    ELSE LET d == Call("is_for_loop", c.st, <<>>) IN
    IF ~Ok(d.st) \/ d.ret THEN d
    ELSE LET e == Call("is_break", d.st, <<>>) IN
    IF ~Ok(e.st) \/ e.ret THEN e
    ELSE Call("is_return_stat", e.st, <<>>)

(***************************************************************************)
(* Parser: the grammar functions.  AST nodes are tuples headed by the      *)
(* name of their class.  Every function hands an errored lexer through    *)
(* unchanged, as a propagating exception does.                             *)
(***************************************************************************)
NoneNode == <<"None">>

Fail(s) == [st |-> s, node |-> NoneNode]

Node(s, n) == IF Ok(s) THEN [st |-> s, node |-> n] ELSE Fail(s)

RECURSIVE declarations_loop(_, _), var_group_loop(_, _),
          function_group_loop(_, _), parameters_list(_), id_list_loop(_, _),
          var_list_loop(_, _), statement_list_loop(_, _), elif_loop(_, _),
          args_loop(_, _), bool_expr_loop(_, _), bool_term_loop(_, _),
          str_expr_loop(_, _), expr_loop(_, _), term_loop(_, _)

variable(s) ==
    IF ~Ok(s) THEN Fail(s)
    ELSE IF s.current_token.type = ID
         THEN Node(Call("go_forward", s, <<>>), <<"Var", s.current_token>>)
         ELSE Fail(Call("error", s, <<>>))


base_type(s) ==
    IF ~Ok(s) THEN Fail(s)
    ELSE IF s.current_token.type \in {INTEGER, REAL, TK_STRING, TK_BOOLEAN, OBJECT}
         THEN Node(Call("go_forward", s, <<>>), s.current_token)
         ELSE Fail(Call("error", s, <<>>))

program(s) ==
    LET v == Call("variable", Call("match", s, PROGRAM), <<>>) IN
    IF ~Ok(v.st) THEN Fail(v.st)
    ELSE LET b == Call("block", v.st, <<>>) IN Node(b.st, <<"Program", b.node>>)

block(s) ==
    LET d == Call("declarations", Call("match", s, LCBRACE), <<>>) IN
    IF ~Ok(d.st) THEN Fail(d.st)
    ELSE LET c == Call("compound_statement", d.st, <<>>) IN
    IF ~Ok(c.st) THEN Fail(c.st)
    ELSE Node(Call("match", c.st, RCBRACE), <<"Block", d.node, c.node>>)

function_block(s) ==
    LET d == Call("declarations", s, <<>>) IN
    IF ~Ok(d.st) THEN Fail(d.st)
    ELSE LET c == Call("compound_statement", d.st, <<>>) IN
    Node(c.st, <<"Block", d.node, c.node>>)

\* while next_tokens_are(ID, COMMA) or next_tokens_are(ID, COLON)
var_group_loop(s, decls) ==
    IF ~Ok(s) THEN Fail(s)
    ELSE LET a == Call("next_tokens_are", s, <<ID, COMMA>>) IN
    IF ~Ok(a.st) THEN Fail(a.st)
    ELSE LET b == IF a.ret THEN a ELSE Call("next_tokens_are", a.st, <<ID, COLON>>) IN
    IF ~Ok(b.st) THEN Fail(b.st)
    ELSE IF b.ret
         THEN LET v == Call("variable_declaration", b.st, <<>>) IN
              IF ~Ok(v.st) THEN Fail(v.st)
              ELSE var_group_loop(Call("match", v.st, SEMI), Append(decls, v.node))
         ELSE Node(b.st, decls)

\* while current token is FUNCTION
function_group_loop(s, decls) ==
    IF ~Ok(s) THEN Fail(s)
    ELSE IF s.current_token.type # FUNCTION THEN Node(s, decls)
    ELSE LET f == Call("match", s, FUNCTION) IN
    IF ~Ok(f) THEN Fail(f)
    ELSE LET proc_name == f.current_token.value
             n == Call("match", f, ID)
         IN
    IF ~Ok(n) THEN Fail(n)
    ELSE LET p == IF n.current_token.type = LPARENT
                  THEN LET l == Call("parameters_list", Call("match", n, LPARENT), <<>>) IN
                       IF ~Ok(l.st) THEN Fail(l.st)
                       ELSE Node(Call("match", l.st, RPARENT), l.node)
                  ELSE Node(n, <<>>)
         IN
    IF ~Ok(p.st) THEN Fail(p.st)
    ELSE LET b == Call("function_block", Call("match", p.st, LCBRACE), <<>>) IN
    IF ~Ok(b.st) THEN Fail(b.st)
    ELSE LET e == Call("match", b.st, RCBRACE) IN
    IF ~Ok(e) THEN Fail(e)
    ELSE function_group_loop(e,
             Append(decls, <<"FunctionDecl", proc_name, p.node, b.node>>))

\* while current token is VAR or FUNCTION
declarations_loop(s, decls) ==
    IF ~Ok(s) THEN Fail(s)
    ELSE IF s.current_token.type \notin {VAR, FUNCTION} THEN Node(s, decls)
    ELSE LET v == IF s.current_token.type = VAR
                  THEN var_group_loop(Call("match", s, VAR), decls)
                  ELSE Node(s, decls)
         IN
    IF ~Ok(v.st) THEN Fail(v.st)
    ELSE LET f == function_group_loop(v.st, v.node) IN
    IF ~Ok(f.st) THEN Fail(f.st) ELSE declarations_loop(f.st, f.node)

\* declarations with each entry put in front of the earlier ones
declarations_newest_first(s) ==
    LET r == declarations_loop(s, <<>>) IN
    IF ~Ok(r.st) THEN r
    ELSE Node(r.st, [i \in DOMAIN r.node |-> r.node[Len(r.node) + 1 - i]])

declarations(s) == declarations_loop(s, <<>>)

\* var = current value; append; match(ID); while COMMA: the same again
id_list_loop(s, names) ==
    IF ~Ok(s) THEN Fail(s)
    ELSE LET m == Call("match", s, ID)
             acc == Append(names, s.current_token.value)
         IN  IF ~Ok(m) THEN Fail(m)
             ELSE IF m.current_token.type = COMMA
                  THEN id_list_loop(Call("match", m, COMMA), acc)
                  ELSE Node(m, acc)

parameters_list(s) ==
    IF ~Ok(s) THEN Fail(s)
    ELSE IF s.current_token.type = RPARENT THEN Node(s, <<>>)
    ELSE LET ids == id_list_loop(s, <<>>) IN
    IF ~Ok(ids.st) THEN Fail(ids.st)
    ELSE LET t == Call("base_type", Call("match", ids.st, COLON), <<>>) IN
    IF ~Ok(t.st) THEN Fail(t.st)
    ELSE LET syms == [i \in DOMAIN ids.node |->
                         <<"VarSymbol", ids.node[i], t.node.value>>]
         IN  IF t.st.current_token.type # RPARENT
             THEN LET rest == parameters_list(Call("match", t.st, SEMI)) IN
                  Node(rest.st, syms \o rest.node)
             ELSE Node(t.st, syms)

\* an ID, then while COMMA: go_forward, an ID, go_forward
var_list_loop(s, variables) ==
    IF ~Ok(s) THEN Fail(s)
    ELSE IF s.current_token.type # ID THEN Fail(Call("error", s, <<>>))
    ELSE LET g == Call("go_forward", s, <<>>)
             acc == Append(variables, s.current_token)
         IN  IF ~Ok(g) THEN Fail(g)
             ELSE IF g.current_token.type = COMMA
                  THEN var_list_loop(Call("go_forward", g, <<>>), acc)
                  ELSE Node(g, acc)

variable_declaration(s) ==
    LET vs == var_list_loop(s, <<>>) IN
    IF ~Ok(vs.st) THEN Fail(vs.st)
    ELSE LET t == Call("base_type", Call("match", vs.st, COLON), <<>>) IN
    IF ~Ok(t.st) THEN Fail(t.st)
    ELSE LET a == Call("next_token_is", t.st, ASSIGN) IN
    IF ~Ok(a.st) THEN Fail(a.st)
    ELSE IF a.ret
         THEN LET val == Call("base_expr", Call("match", a.st, ASSIGN), <<>>) IN
              Node(val.st, <<"VarDecs", vs.node, t.node, val.node>>)
         ELSE Node(a.st, <<"VarDecs", vs.node, t.node, NoneNode>>)

compound_statement(s) ==
    LET l == Call("statement_list", s, <<>>) IN
    IF ~Ok(l.st) THEN Fail(l.st) ELSE Node(l.st, <<"Compound", l.node>>)

\* while is_compound_statement(): children += statement_list()
statement_list_loop(s, children) ==
    IF ~Ok(s) THEN Fail(s)
    ELSE LET c == Call("is_compound_statement", s, <<>>) IN
         IF ~Ok(c.st) THEN Fail(c.st)
         ELSE IF c.ret
              THEN LET l == Call("statement_list", c.st, <<>>) IN
                   IF ~Ok(l.st) THEN Fail(l.st)
                   ELSE statement_list_loop(l.st, children \o l.node)
              ELSE Node(c.st, children)

\* statement yields the list of nodes its result adds to the children:
\* the declarations when it is a list, the node itself otherwise
statement_list(s) ==
    LET f == Call("statement", s, <<>>) IN
    IF ~Ok(f.st) THEN Fail(f.st) ELSE statement_list_loop(f.st, f.node)

function_return_statement(s) ==
    LET p == Call("next_tokens_are", s, <<RETURN>>) IN
    IF ~Ok(p.st) THEN Fail(p.st)
    ELSE IF p.ret
         THEN LET r == Call("base_expr", Call("match", p.st, RETURN), <<>>) IN
              IF ~Ok(r.st) THEN Fail(r.st)
              ELSE Node(Call("match", r.st, SEMI), <<"ReturnStat", r.node>>)
         ELSE Node(p.st, <<"ReturnStat", NoneNode>>)

One(r) == IF Ok(r.st) THEN [st |-> r.st, node |-> <<r.node>>] ELSE Fail(r.st)

statement(s) ==
    IF ~Ok(s) THEN Fail(s)
    ELSE
    LET token == s.current_token
        a == Call("is_function_call", s, <<>>)
    IN
    IF ~Ok(a.st) THEN Fail(a.st)
    ELSE IF a.ret
         THEN LET n == Call("function_call", a.st, <<>>) IN
              IF ~Ok(n.st) THEN Fail(n.st)
              ELSE One(Node(Call("match", n.st, SEMI), n.node))
    ELSE LET b == Call("is_assignment", a.st, <<>>) IN
    IF ~Ok(b.st) THEN Fail(b.st)
    ELSE IF b.ret
         THEN LET n == Call("assignment_statement", b.st, <<>>) IN
              IF ~Ok(n.st) THEN Fail(n.st)
              ELSE One(Node(Call("match", n.st, SEMI), n.node))
    ELSE IF is_declaration(b.st) THEN Call("declarations", b.st, <<>>)
    ELSE LET c == Call("is_if_statement", b.st, <<>>) IN
    IF ~Ok(c.st) THEN Fail(c.st)
    ELSE IF c.ret THEN One(Call("if_statement", c.st, <<>>))
    ELSE LET d == Call("is_for_loop", c.st, <<>>) IN
    IF ~Ok(d.st) THEN Fail(d.st)
    ELSE IF d.ret THEN One(Call("for_loop", d.st, <<>>))
    ELSE LET e == Call("is_break", d.st, <<>>) IN
    IF ~Ok(e.st) THEN Fail(e.st)
    ELSE IF e.ret THEN One(Node(Call("match", Call("match", e.st, BREAK), SEMI), <<"Break">>))
    ELSE LET r == Call("is_return_stat", e.st, <<>>) IN
    IF ~Ok(r.st) THEN Fail(r.st)
    ELSE IF r.ret THEN One(Call("function_return_statement", r.st, <<>>))
    ELSE IF token.type = RCBRACE THEN One(Node(r.st, <<"NoOp">>))
    ELSE Fail(Call("error", r.st, <<>>))

for_loop(s) ==
    LET base == Call("assignment_statement", Call("match", s, FOR), <<>>) IN
    IF ~Ok(base.st) THEN Fail(base.st)
    ELSE LET cond == Call("bool_expr", Call("match", base.st, SEMI), <<>>) IN
    IF ~Ok(cond.st) THEN Fail(cond.st)
    ELSE LET then == Call("assignment_statement", Call("match", cond.st, SEMI), <<>>) IN
    IF ~Ok(then.st) THEN Fail(then.st)
    ELSE LET body == Call("block", then.st, <<>>) IN
    Node(body.st, <<"ForLoop", base.node, cond.node, then.node, body.node>>)

\* while current token is ELIF
elif_loop(s, if_blocks) ==
    IF ~Ok(s) THEN Fail(s)
    ELSE IF s.current_token.type # ELIF THEN Node(s, if_blocks)
    ELSE LET c == Call("bool_expr", Call("match", s, ELIF), <<>>) IN
    IF ~Ok(c.st) THEN Fail(c.st)
    ELSE LET b == Call("block", c.st, <<>>) IN
    IF ~Ok(b.st) THEN Fail(b.st)
    ELSE elif_loop(b.st, Append(if_blocks, <<"IfBlock", c.node, b.node>>))

if_statement(s) ==
    LET c == Call("bool_expr", Call("match", s, TK_IF), <<>>) IN
    IF ~Ok(c.st) THEN Fail(c.st)
    ELSE LET b == Call("block", c.st, <<>>) IN
    IF ~Ok(b.st) THEN Fail(b.st)
    ELSE LET l == elif_loop(b.st, <<<<"IfBlock", c.node, b.node>>>>) IN
    IF ~Ok(l.st) THEN Fail(l.st)
    ELSE IF l.st.current_token.type = TK_ELSE
         THEN LET e == Call("block", Call("match", l.st, TK_ELSE), <<>>) IN
              Node(e.st, <<"IfStat", l.node, e.node>>)
         ELSE Node(l.st, <<"IfStat", l.node, NoneNode>>)

\* while current token is COMMA: match(COMMA); params.append(base_expr())
args_loop(s, params) ==
    IF ~Ok(s) THEN Fail(s)
    ELSE IF s.current_token.type # COMMA THEN Node(s, params)
    ELSE LET e == Call("base_expr", Call("match", s, COMMA), <<>>) IN
         IF ~Ok(e.st) THEN Fail(e.st) ELSE args_loop(e.st, Append(params, e.node))

function_call(s) ==
    IF ~Ok(s) THEN Fail(s)
    ELSE LET current_token == s.current_token
             proc_name == s.current_token.value
             i == Call("match", s, ID)
         IN
    IF ~Ok(i) THEN Fail(i)
    ELSE LET l == Call("match", i, LPARENT) IN
    IF ~Ok(l) THEN Fail(l)
    ELSE IF l.current_token.type = RPARENT
         THEN Node(Call("match", l, RPARENT),
                   <<"FunctionCall", proc_name, <<>>, current_token>>)
    ELSE LET first == Call("base_expr", l, <<>>) IN
    IF ~Ok(first.st) THEN Fail(first.st)
    ELSE LET rest == args_loop(first.st, <<first.node>>) IN
    IF ~Ok(rest.st) THEN Fail(rest.st)
    ELSE Node(Call("match", rest.st, RPARENT),
              <<"FunctionCall", proc_name, rest.node, current_token>>)

assignment_statement(s) ==
    LET v == Call("variable", s, <<>>) IN
    IF ~Ok(v.st) THEN Fail(v.st)
    ELSE LET e == Call("base_expr", Call("match", v.st, ASSIGN), <<>>) IN
    Node(e.st, <<"Assign", v.node, Token(ASSIGN, <<"Assign">>), e.node>>)

\* base_expr_branch with the boolean scan ahead of the string scan
base_expr_branch_bool_first(s) ==
    LET b == Call("is_next_bool_expr", s, <<>>) IN
    IF ~Ok(b.st) THEN [st |-> b.st, branch |-> "raised"]
    ELSE IF b.ret THEN [st |-> b.st, branch |-> "bool_expr"]
    ELSE LET a == Call("is_next_str_expr", b.st, <<>>) IN
    IF ~Ok(a.st) THEN [st |-> a.st, branch |-> "raised"]
    ELSE IF a.ret THEN [st |-> a.st, branch |-> "str_expr"]
    ELSE LET c == Call("is_next_expr", a.st, <<>>) IN
    IF ~Ok(c.st) THEN [st |-> c.st, branch |-> "raised"]
    ELSE IF c.ret THEN [st |-> c.st, branch |-> "expr"]
    ELSE [st |-> c.st, branch |-> "error"]

\* the branch base_expr takes: [st, branch], the three forward scans in order
base_expr_branch(s) ==
    LET a == Call("is_next_str_expr", s, <<>>) IN
    IF ~Ok(a.st) THEN [st |-> a.st, branch |-> "raised"]
    ELSE IF a.ret THEN [st |-> a.st, branch |-> "str_expr"]
    ELSE LET b == Call("is_next_bool_expr", a.st, <<>>) IN
    IF ~Ok(b.st) THEN [st |-> b.st, branch |-> "raised"]
    ELSE IF b.ret THEN [st |-> b.st, branch |-> "bool_expr"]
    ELSE LET c == Call("is_next_expr", b.st, <<>>) IN
    IF ~Ok(c.st) THEN [st |-> c.st, branch |-> "raised"]
    ELSE IF c.ret THEN [st |-> c.st, branch |-> "expr"]
    ELSE [st |-> c.st, branch |-> "error"]

\* [st, node, branch]: the result of the branch taken, and which one it was
base_expr(s) ==
    IF ~Ok(s) THEN [st |-> s, node |-> NoneNode, branch |-> "raised"]
    ELSE LET k == Call("base_expr_branch", s, <<>>)
             r == CASE k.branch = "str_expr" -> Call("str_expr", k.st, <<>>)
                    [] k.branch = "bool_expr" -> Call("bool_expr", k.st, <<>>)
                    [] k.branch = "expr" -> Call("expr", k.st, <<>>)
                    [] k.branch = "error" -> Fail(Call("error", k.st, <<>>))
                    [] k.branch = "raised" -> Fail(k.st)
         IN  [st |-> r.st, node |-> r.node, branch |-> k.branch]

\* while current token is OR or AND
bool_expr_loop(s, left) ==
    IF ~Ok(s) THEN Fail(s)
    ELSE IF s.current_token.type \notin {OR, AND} THEN Node(s, left)
    ELSE LET op == s.current_token
             r == Call("bool_term", Call("go_forward", s, <<>>), <<>>)
         IN  IF ~Ok(r.st) THEN Fail(r.st)
             ELSE IF op.type = OR
                  THEN bool_expr_loop(r.st, <<"BoolOr", left, r.node>>)
                  ELSE bool_expr_loop(r.st, <<"BoolAnd", left, r.node>>)

bool_expr(s) ==
    LET t == Call("bool_term", s, <<>>) IN
    IF ~Ok(t.st) THEN Fail(t.st) ELSE bool_expr_loop(t.st, t.node)

ComparisonNode(type) ==
    CASE type = NOT_EQUAL -> "BoolNotEqual"
      [] type = GREATER_THAN -> "BoolGreaterThan"
      [] type = GREATER_THAN_OR_EQUAL -> "BoolGreaterThanOrEqual"
      [] type = LESS_THAN -> "BoolLessThan"
      [] type = LESS_THAN_OR_EQUAL -> "BoolLessThanOrEqual"
      [] type = IS_EQUAL -> "BoolIsEqual"

Comparisons ==
    {GREATER_THAN, GREATER_THAN_OR_EQUAL, LESS_THAN, LESS_THAN_OR_EQUAL,
     NOT_EQUAL, IS_EQUAL}

\* while current token is a comparison operator
bool_term_loop(s, left) ==
    IF ~Ok(s) THEN Fail(s)
    ELSE IF s.current_token.type \notin Comparisons THEN Node(s, left)
    ELSE LET op == s.current_token
             r == Call("bool_factor", Call("go_forward", s, <<>>), <<>>)
         IN  IF ~Ok(r.st) THEN Fail(r.st)
             ELSE bool_term_loop(r.st, <<ComparisonNode(op.type), left, r.node>>)

bool_term(s) ==
    LET f == Call("bool_factor", s, <<>>) IN
    IF ~Ok(f.st) THEN Fail(f.st) ELSE bool_term_loop(f.st, f.node)

bool_factor(s) ==
    IF ~Ok(s) THEN Fail(s)
    ELSE
    LET token == s.current_token IN
    IF token.type = NOT
    THEN LET t == Call("bool_term", Call("match", s, NOT), <<>>) IN
         Node(t.st, <<"NotOp", t.node>>)
    ELSE IF token.type = TK_BOOLEAN
    THEN Node(Call("match", s, TK_BOOLEAN), <<"BooleanSymbol", token.value>>)
    ELSE LET c == Call("is_next_function_call", s, <<>>) IN
    IF ~Ok(c.st) THEN Fail(c.st)
    ELSE IF c.ret THEN Call("function_call", c.st, <<>>)
    ELSE IF token.type = ID THEN Node(Call("match", c.st, ID), <<"Var", token>>)
    ELSE IF token.type = INTEGER THEN Node(Call("match", c.st, INTEGER), <<"Num", token>>)
    ELSE IF token.type = FLOAT THEN Node(Call("match", c.st, FLOAT), <<"Num", token>>)
    ELSE IF token.type = LPARENT
    THEN LET e == Call("bool_expr", Call("match", c.st, LPARENT), <<>>) IN
         Node(Call("match", e.st, RPARENT), e.node)
    ELSE Fail(Call("error", c.st, <<>>))

\* while current token is PLUS: var = StrOp(var, PLUS, str_expr())
str_expr_loop(s, var) ==
    IF ~Ok(s) THEN Fail(s)
    ELSE IF s.current_token.type # PLUS THEN Node(s, var)
    ELSE LET r == Call("str_expr", Call("match", s, PLUS), <<>>) IN
         IF ~Ok(r.st) THEN Fail(r.st)
         ELSE str_expr_loop(r.st, <<"StrOp", var, FixedToken(PLUS), r.node>>)

str_expr(s) ==
    IF ~Ok(s) THEN Fail(s)
    ELSE
    LET var == s.current_token IN
    IF var.type = TK_STRING THEN str_expr_loop(Call("go_forward", s, <<>>), <<"Str", var>>)
    ELSE LET c == Call("is_next_function_call", s, <<>>) IN
    IF ~Ok(c.st) THEN Fail(c.st)
    ELSE IF c.ret THEN Call("function_call", c.st, <<>>)
    ELSE IF var.type = ID THEN str_expr_loop(Call("go_forward", c.st, <<>>), <<"Var", var>>)
    ELSE Fail(Call("error", c.st, <<>>))

\* while current token is PLUS or MINUS
expr_loop(s, node) ==
    IF ~Ok(s) THEN Fail(s)
    ELSE IF s.current_token.type \notin {PLUS, MINUS} THEN Node(s, node)
    ELSE LET current_op_token == s.current_token
             r == Call("term", Call("go_forward", s, <<>>), <<>>)
         IN  IF ~Ok(r.st) THEN Fail(r.st)
             ELSE expr_loop(r.st, <<"BinOp", node, current_op_token, r.node>>)

expr(s) ==
    LET t == Call("term", s, <<>>) IN
    IF ~Ok(t.st) THEN Fail(t.st) ELSE expr_loop(t.st, t.node)

\* while current token is MULT, FLOAT_DIV or INTEGER_DIV
term_loop(s, node) ==
    IF ~Ok(s) THEN Fail(s)
    ELSE IF s.current_token.type \notin {MULT, FLOAT_DIV, INTEGER_DIV} THEN Node(s, node)
    ELSE LET current_op_token == s.current_token
             r == Call("factor", Call("go_forward", s, <<>>), <<>>)
         IN  IF ~Ok(r.st) THEN Fail(r.st)
             ELSE term_loop(r.st, <<"BinOp", node, current_op_token, r.node>>)

term(s) ==
    LET f == Call("factor", s, <<>>) IN
    IF ~Ok(f.st) THEN Fail(f.st) ELSE term_loop(f.st, f.node)

factor(s) ==
    IF ~Ok(s) THEN Fail(s)
    ELSE
    LET token == s.current_token IN
    IF token.type = PLUS
    THEN LET f == Call("factor", Call("match", s, PLUS), <<>>) IN
         Node(f.st, <<"UnaryOp", token, f.node>>)
    ELSE IF token.type = MINUS
    THEN LET f == Call("factor", Call("match", s, MINUS), <<>>) IN
         Node(f.st, <<"UnaryOp", token, f.node>>)
    ELSE IF token.type = INTEGER THEN Node(Call("go_forward", s, <<>>), <<"Num", token>>)
    ELSE IF token.type = FLOAT THEN Node(Call("go_forward", s, <<>>), <<"Num", token>>)
    ELSE IF token.type = LPARENT
    THEN LET e == Call("expr", Call("match", s, LPARENT), <<>>) IN
         Node(Call("match", e.st, RPARENT), e.node)
    ELSE LET c == Call("is_function_call", s, <<>>) IN
    IF ~Ok(c.st) THEN Fail(c.st)
    ELSE IF c.ret THEN Call("function_call", c.st, <<>>)
    ELSE IF token.type = ID THEN Node(Call("go_forward", c.st, <<>>), <<"Var", token>>)
    ELSE Fail(Call("error", c.st, <<>>))

\* Parser.parse: [st, node, program], program the lexer as self.program()
\* left it
parse(s) ==
    LET p == Call("program", s, <<>>)
        r == IF ~Ok(p.st) THEN Fail(p.st)
             ELSE IF is_pointer_out_of_text(p.st) THEN p
             ELSE Fail(Call("error", p.st, <<>>))
    IN  [st |-> r.st, node |-> r.node, program |-> p.st]

(***************************************************************************)
(* self.f(...): the call of a method of the parser, or of go_forward of    *)
(* its lexer, on the lexer s with the argument a (<<>> for none).          *)
(***************************************************************************)
Call(f, s, a) ==
    CASE f = "go_forward" -> go_forward(s)
      [] f = "match" -> match(s, a)
      [] f = "error" -> error(s)
      [] f = "next_tokens_are" -> next_tokens_are(s, a)
      [] f = "next_token_is" -> next_token_is(s, a)
      [] f = "match_next_tokens_to_any" -> match_next_tokens_to_any(s, a)
      [] f = "print_surrounding_tokens" -> print_surrounding_tokens(s)
      [] f = "is_function_call" -> is_function_call(s)
      [] f = "is_assignment" -> is_assignment(s)
      [] f = "is_if_statement" -> is_if_statement(s)
      [] f = "is_for_loop" -> is_for_loop(s)
      [] f = "is_break" -> is_break(s)
      [] f = "is_return_stat" -> is_return_stat(s)
      [] f = "is_next_function_call" -> is_next_function_call(s)
      [] f = "is_next_bool_expr" -> is_next_bool_expr(s)
      [] f = "is_next_expr" -> is_next_expr(s)
      [] f = "is_next_str_expr" -> is_next_str_expr(s)
      [] f = "is_compound_statement" -> is_compound_statement(s)
      [] f = "variable" -> variable(s)
      [] f = "base_type" -> base_type(s)
      [] f = "program" -> program(s)
      [] f = "block" -> block(s)
      [] f = "function_block" -> function_block(s)
      [] f = "declarations" -> declarations(s)
      [] f = "parameters_list" -> parameters_list(s)
      [] f = "variable_declaration" -> variable_declaration(s)
      [] f = "compound_statement" -> compound_statement(s)
      [] f = "statement_list" -> statement_list(s)
      [] f = "function_return_statement" -> function_return_statement(s)
      [] f = "statement" -> statement(s)
      [] f = "for_loop" -> for_loop(s)
      [] f = "if_statement" -> if_statement(s)
      [] f = "function_call" -> function_call(s)
      [] f = "assignment_statement" -> assignment_statement(s)
      [] f = "base_expr_branch" -> base_expr_branch(s)
      [] f = "base_expr" -> base_expr(s)
      [] f = "bool_expr" -> bool_expr(s)
      [] f = "bool_term" -> bool_term(s)
      [] f = "bool_factor" -> bool_factor(s)
      [] f = "str_expr" -> str_expr(s)
      [] f = "expr" -> expr(s)
      [] f = "term" -> term(s)
      [] f = "factor" -> factor(s)
      [] f = "parse" -> parse(s)

(***************************************************************************)
(* Input texts.  A text is a concatenation of fragments: short character   *)
(* runs for the scanners, expression pieces for the expression grammar,    *)
(* and declaration groups inside  PROGRAM p{ ... }  followed by a trailer. *)
(***************************************************************************)
MaxLexFrags == 3

MaxExprFrags == 3

MaxDeclFrags == 3

LexFrags ==
    {<<"o", "r">>, <<"d">>, <<"1">>, <<"1", ".">>, <<"\"">>, <<"{", "{">>, <<"}">>,
     <<"/", "/">>, <<"\n">>}

\* digits, dots and what ends a number
NumFrags == {<<"2">>, <<"0">>, <<".", "5">>, <<".">>, <<"a">>}

ExprFrags ==
    {<<"\"", "s", "\"">>, <<"a">>, <<"f", "(", ")">>,
     <<"+", "\"", "s", "\"">>, <<"+", "a">>, <<"+", "f", "(", ")">>,
     <<">", "a">>, <<";">>, <<"@">>}

DeclFrags ==
    {<<"V","A","R"," ","a",":","i","n","t","e","g","e","r",";">>,
     <<"b",":","r","e","a","l",";">>,
     <<"V","A","R"," ","c",":","1",";">>,
     <<"V","A","R"," ","s",":","s","t","r","i","n","g","=","f","(",")","+","\"","s","\"",";">>,
     <<"F","U","N","C","T","I","O","N"," ","f","{","}">>,
     <<"F","U","N","C","T","I","O","N"," ","g","{">>,
     <<"}">>}

Header == <<"P","R","O","G","R","A","M"," ","p","{">>

Trailers == {<<"x">>, <<"x", " ", "y">>}

\* all concatenations of at most n fragments
RECURSIVE Texts(_, _)
Texts(frags, n) ==
    IF n = 0 THEN {<<>>}
    ELSE LET shorter == Texts(frags, n - 1) IN
         shorter \cup {t \o f : t \in shorter, f \in frags}

LexTexts == Texts(LexFrags, MaxLexFrags) \cup Texts(NumFrags, MaxLexFrags)

ExprTexts == Texts(ExprFrags, MaxExprFrags)

\* programs of up to MaxDeclFrags groups, and the shortest of them with
\* further input after the closing brace, or with a VAR keyword of its own
\* in front of the body
ProgramTexts ==
    {Header \o body \o <<"}">> : body \in Texts(DeclFrags, MaxDeclFrags)}
        \cup {Header \o body \o <<"}">> \o trailer :
                  body \in Texts(DeclFrags, 1), trailer \in Trailers}
        \cup {Header \o <<"V","A","R"," ">> \o body \o <<"}">> :
                  body \in Texts(DeclFrags, 1)}

(***************************************************************************)
(* The state machine.  last records the operation that produced the       *)
(* current lexer: its name, the lexer it was applied to, and what it      *)
(* returned.  An operation that raised ends the run.  The lexer is moved  *)
(* by at most MaxSteps scanning steps, and one other operation is applied *)
(* to the lexer they reach.                                                *)
(***************************************************************************)
MaxSteps == 2

Op(name, pre, ret, tok, node, branch) ==
    [op |-> name, pre |-> pre, ret |-> ret, tok |-> tok, node |-> node, branch |-> branch]

Scans == {"__init__", "go_forward"}

Ready == Ok(lexer) /\ last.op \in Scans

ProbeChars == {<<"o", "r">>, <<"{", "{">>}

ProbeTokens == {<<ID, LPARENT>>, <<ID, ASSIGN>>}

ProbeTypes == {StrMarkers, BoolMarkers, ExprMarkers}

Init ==
    /\ text \in LexTexts \cup ExprTexts \cup ProgramTexts
    /\ lexer = NewLexer
    /\ last = Op("new", NewLexer, FALSE, NoToken, NoneNode, "")
    /\ steps = 0

\* Lexer.__init__, line 15: the first token
Construct ==
    /\ last.op = "new"
    /\ lexer' = get_next_token(lexer)
    /\ last' = Op("__init__", lexer, FALSE, NoToken, NoneNode, "")
    /\ UNCHANGED <<text, steps>>

GoForward ==
    /\ Ready
    /\ steps < MaxSteps
    /\ lexer' = Call("go_forward", lexer, <<>>)
    /\ last' = Op("go_forward", lexer, FALSE, NoToken, NoneNode, "")
    /\ steps' = steps + 1
    /\ UNCHANGED text

PeekNextToken ==
    /\ Ready
    /\ LET r == peek_next_token(lexer) IN
       /\ lexer' = r.st
       /\ last' = Op("peek_next_token", lexer, FALSE, r.ret, NoneNode, "")
    /\ UNCHANGED <<text, steps>>

NextCharactersAre ==
    /\ Ready
    /\ \E chars \in ProbeChars :
         LET r == next_characters_are(lexer, chars) IN
         /\ lexer' = r.st
         /\ last' = Op("next_characters_are", lexer, r.ret, NoToken, NoneNode, "")
    /\ UNCHANGED <<text, steps>>

NextTokensAre ==
    /\ Ready
    /\ \E args \in ProbeTokens :
         LET r == Call("next_tokens_are", lexer, args) IN
         /\ lexer' = r.st
         /\ last' = Op("next_tokens_are", lexer, r.ret, NoToken, NoneNode, "")
    /\ UNCHANGED <<text, steps>>

MatchNextTokensToAny ==
    /\ Ready
    /\ \E types \in ProbeTypes :
         LET r == Call("match_next_tokens_to_any", lexer, types) IN
         /\ lexer' = r.st
         /\ last' = Op("match_next_tokens_to_any", lexer, r.ret, NoToken, NoneNode, "")
    /\ UNCHANGED <<text, steps>>

BaseExpr ==
    /\ Ready
    /\ LET r == Call("base_expr", lexer, <<>>) IN
       /\ lexer' = r.st
       /\ last' = Op("base_expr", lexer, FALSE, NoToken, r.node, r.branch)
    /\ UNCHANGED <<text, steps>>

StrExpr ==
    /\ Ready
    /\ LET r == Call("str_expr", lexer, <<>>) IN
       /\ lexer' = r.st
       /\ last' = Op("str_expr", lexer, FALSE, NoToken, r.node, "")
    /\ UNCHANGED <<text, steps>>

\* Parser(text).parse(): on the parser as constructed
Parse ==
    /\ Ready
    /\ last.op = "__init__"
    /\ LET r == Call("parse", lexer, <<>>) IN
       /\ lexer' = r.st
       \* ret, tok: whether program() returned, and the token it stopped at
       /\ last' = Op("parse", lexer, Ok(r.program),
                     IF Ok(r.program) THEN r.program.current_token ELSE NoToken,
                     r.node, "")
    /\ UNCHANGED <<text, steps>>

Next ==
    \/ Construct
    \/ GoForward
    \/ PeekNextToken
    \/ NextCharactersAre
    \/ NextTokensAre
    \/ MatchNextTokensToAny
    \/ BaseExpr
    \/ StrExpr
    \/ Parse

Spec == Init /\ [][Next]_vars

(***************************************************************************)
(* Properties.                                                             *)
(***************************************************************************)
Probes == {"next_characters_are", "next_tokens_are", "match_next_tokens_to_any"}

\* C1: lookahead purity.  Whenever next_characters_are, next_tokens_are or
\* match_next_tokens_to_any returns, the lexer (pos, lineno, column,
\* current_token and the snapshot stack) is what it was before the call.
C1_LookaheadPurity ==
    (last.op \in Probes /\ Ok(lexer)) => lexer = last.pre

\* a token-sequence probe that went forward over two tokens and answered True
C1_Witness ==
    /\ last.op = "next_tokens_are"
    /\ Ok(lexer)
    /\ last.ret
    /\ lexer.current_token.type = ID
    /\ lexer.pos < Len(text)

\* the kinds of the tokens from the current one up to the first SEMI, LCBRACE
\* or EOF (or up to the token the lexer fails on)
RECURSIVE SlotKinds(_)
SlotKinds(s) ==
    IF ~Ok(s) \/ s.current_token.type \in {SEMI, LCBRACE, EOF} THEN {}
    ELSE {s.current_token.type} \cup SlotKinds(Call("go_forward", s, <<>>))

\* the rest of the input, from the current token on, is a sequence of tokens
RECURSIVE Lexes(_)
Lexes(s) == Ok(s) /\ (s.current_token.type = EOF \/ Lexes(Call("go_forward", s, <<>>)))

BoolKinds ==
    {AND, OR, TK_BOOLEAN, NOT, NOT_EQUAL, GREATER_THAN, GREATER_THAN_OR_EQUAL,
     LESS_THAN, LESS_THAN_OR_EQUAL, IS_EQUAL}

ArithKinds == {MULT, DIV, FLOAT_DIV, MINUS, PLUS, ID, INTEGER, FLOAT}

BranchByPriority(kinds) ==
    IF TK_STRING \in kinds THEN "str_expr"
    ELSE IF kinds \cap BoolKinds # {} THEN "bool_expr"
    ELSE IF kinds \cap ArithKinds # {} THEN "expr"
    ELSE "error"

C3_TrailingInputRejected ==
    (last.op = "parse" /\ last.ret /\ last.tok.type # EOF) =>
        lexer.err = "ParserError"

DerivableFrags ==
    {<<"V","A","R"," ","a",":","i","n","t","e","g","e","r",";">>,
     <<"V","A","R"," ","s",":","s","t","r","i","n","g","=","f","(",")","+","\"","s","\"",";">>,
     <<"F","U","N","C","T","I","O","N"," ","f","{","}">>}

\* programs of declaration groups, each derived from the grammar
DerivablePrograms ==
    {Header \o body \o <<"}">> : body \in Texts(DerivableFrags, MaxDeclFrags)}

\* C4 as claimed: on an input derived from the grammar parse() returns
\* without raising and with the cursor at the end of the input.
C4_GrammarInputsParse ==
    (last.op = "parse" /\ text \in DerivablePrograms) =>
        (Ok(lexer) /\ lexer.pos = Len(text))

\* the end of the maximal alphanumeric run that starts at position p
RECURSIVE RunEnd(_)
RunEnd(p) == IF p < Len(text) /\ isalnum(text[p + 1]) THEN RunEnd(p + 1) ELSE p

\* C5 as claimed: a scan that starts at a letter returns a token that covers
\* the whole maximal alphanumeric run, and an ID carries the text of the run.
C5_MaximalRun ==
    (/\ last.op \in Scans
     /\ Ok(lexer)
     /\ last.pre.pos < Len(text)
     /\ isalpha(text[last.pre.pos + 1])) =>
        /\ lexer.pos = RunEnd(last.pre.pos)
        /\ lexer.current_token.type = ID =>
               lexer.current_token.value = SubSeq(text, last.pre.pos + 1, lexer.pos)

\* a string literal opens at position p and its delimiter does not come again
Unterminated(p) ==
    /\ p < Len(text)
    /\ text[p + 1] \in {"'", "\""}
    /\ \A i \in p + 2 .. Len(text) : text[i] # text[p + 1]

\* C6 as claimed: scanning an unterminated string literal raises LexerError.
C6_UnterminatedStringIsLexerError ==
    (last.op \in Scans /\ Unterminated(last.pre.pos)) => lexer.err = "LexerError"

\* a block comment opens at position p and no }} closes it
UnterminatedComment(p) ==
    /\ p + 1 < Len(text)
    /\ text[p + 1] = "{" /\ text[p + 2] = "{"
    /\ \A i \in p + 3 .. Len(text) - 1 : ~(text[i] = "}" /\ text[i + 1] = "}")

\* C7 as claimed: scanning an unterminated block comment raises LexerError.
C7_UnterminatedCommentIsLexerError ==
    (last.op \in Scans /\ UnterminatedComment(last.pre.pos)) =>
        lexer.err = "LexerError"

RECURSIVE RightNested(_)
RightNested(node) ==
    node[1] = "StrOp" => (node[2][1] # "StrOp" /\ RightNested(node[4]))

\* C8 as claimed: str_expr consumes the whole chain of segments joined by
\* PLUS and nests it to the right, whatever the kind of the segments.
C8_StrExprChain ==
    (last.op = "str_expr" /\ Ok(lexer)) =>
        (lexer.current_token.type # PLUS /\ RightNested(last.node))

\* the declarations of a Block and of the blocks nested in its functions, in
\* the order of the sequences that hold them: <<level, kind, name>>
RECURSIVE DeclsOf(_, _, _)
DeclsOf(decls, i, level) ==
    IF i > Len(decls) THEN <<>>
    ELSE LET d == decls[i] IN
         IF d[1] = "FunctionDecl"
         THEN <<<<level, "function", d[2]>>>>
                  \o DeclsOf(d[4][2], 1, level + 1)
                  \o DeclsOf(decls, i + 1, level)
         ELSE <<<<level, "var", d[2][Len(d[2])].value>>>>
                  \o DeclsOf(decls, i + 1, level)

\* the declarations as the token stream has them: an ID after FUNCTION, and
\* an ID before a COLON outside parentheses; level is the depth of braces
RECURSIVE DeclsInSource(_, _, _, _)
DeclsInSource(s, prev, level, parens) ==
    IF ~Ok(s) \/ s.current_token.type = EOF THEN <<>>
    ELSE LET t == s.current_token
             here == IF t.type = ID /\ prev.type = FUNCTION
                     THEN <<<<level, "function", t.value>>>>
                     ELSE IF t.type = COLON /\ prev.type = ID /\ parens = 0
                     THEN <<<<level, "var", prev.value>>>>
                     ELSE <<>>
             l == IF t.type = LCBRACE THEN level + 1
                  ELSE IF t.type = RCBRACE THEN level - 1 ELSE level
             p == IF t.type = LPARENT THEN parens + 1
                  ELSE IF t.type = RPARENT THEN parens - 1 ELSE parens
         IN  here \o DeclsInSource(Call("go_forward", s, <<>>), t, l, p)

\* C9: when parse() returns a Program, the declarations sequences of its
\* Block and of the nested function blocks hold exactly one entry per
\* variable declaration and per function declaration of the source, each at
\* its nesting level and in source order.
C9_DeclarationOrder ==
    (last.op = "parse" /\ Ok(lexer)) =>
        DeclsOf(last.node[2][2], 1, 1) = DeclsInSource(last.pre, NoToken, 0, 0)

\* a program block with a VAR group, a function and a VAR group again
C9_Witness ==
    /\ last.op = "parse"
    /\ Ok(lexer)
    /\ Len(last.node[2][2]) = 3
    /\ last.node[2][2][1][1] = "VarDecs"
    /\ last.node[2][2][2][1] = "FunctionDecl"
    /\ last.node[2][2][3][1] = "VarDecs"

\* the text has a literal (a number or a string) right after a colon
LiteralAfterColon ==
    \E i \in 1 .. Len(text) - 1 :
        text[i] = ":" /\ (is_digit(text[i + 1]) \/ text[i + 1] \in {"'", "\""})

\* C10 as claimed: a literal in the place of the base type is rejected with
\* a parser error.
C10_LiteralTypeRejected ==
    (last.op = "parse" /\ LiteralAfterColon) => lexer.err = "ParserError"

\* a VAR token that is not followed by ID COMMA or ID COLON
RECURSIVE EmptyVarGroup(_)
EmptyVarGroup(s) ==
    /\ Ok(s)
    /\ s.current_token.type # EOF
    /\ LET n == Call("go_forward", s, <<>>)
           m == Call("go_forward", n, <<>>)
       IN  \/ /\ s.current_token.type = VAR
              /\ Ok(n)
              /\ \/ n.current_token.type # ID
                 \/ Ok(m) /\ m.current_token.type \notin {COMMA, COLON}
           \/ EmptyVarGroup(n)

\* C11 as claimed: a program in which some VAR is not followed by a variable
\* declaration is rejected with a parser error.
C11_VarNeedsDeclaration ==
    (last.op = "parse" /\ EmptyVarGroup(last.pre)) => lexer.err = "ParserError"

\* the end of the maximal run of digits and dots that starts at position p
RECURSIVE NumberRunEnd(_)
NumberRunEnd(p) ==
    IF p < Len(text) /\ (is_digit(text[p + 1]) \/ text[p + 1] = ".")
    THEN NumberRunEnd(p + 1) ELSE p

RECURSIVE Pow10(_)
Pow10(n) == IF n = 0 THEN 1 ELSE 10 * Pow10(n - 1)

\* the digits of text[from + 1 .. to] read as one decimal numeral, dots left out
RECURSIVE DigitsValue(_, _, _)
DigitsValue(from, to, acc) ==
    IF from >= to THEN acc
    ELSE IF text[from + 1] = "." THEN DigitsValue(from + 1, to, acc)
    ELSE DigitsValue(from + 1, to,
             10 * acc + (CHOOSE d \in 0 .. 9 : Digits[d + 1] = text[from + 1]))

\* the number of characters of text[from + 1 .. to] after its last dot
FractionLen(from, to) ==
    LET dots == {i \in from + 1 .. to : text[i] = "."} IN
    to - (CHOOSE i \in dots : \A j \in dots : j <= i)

Dots(from, to) == Cardinality({i \in from + 1 .. to : text[i] = "."})

\* C12: a scan that starts at a digit takes the maximal run of digits and
\* dots: with no dot it returns INTEGER with the run's value, with one dot
\* FLOAT with the run's value, in both cases with the cursor right after the
\* run, and with more than one dot it raises LexerError.
C12_NumberScan ==
    (/\ last.op \in Scans
     /\ last.pre.pos < Len(text)
     /\ is_digit(text[last.pre.pos + 1])) =>
        LET from == last.pre.pos
            to == NumberRunEnd(from)
            tok == lexer.current_token
        IN  CASE Dots(from, to) = 0 ->
                   /\ Ok(lexer) /\ lexer.pos = to
                   /\ tok.type = INTEGER
                   /\ tok.num = DigitsValue(from, to, 0) /\ tok.scale = 0
              [] Dots(from, to) = 1 ->
                   /\ Ok(lexer) /\ lexer.pos = to
                   /\ tok.type = FLOAT
                   /\ tok.scale <= FractionLen(from, to)
                   /\ tok.num * Pow10(FractionLen(from, to) - tok.scale)
                          = DigitsValue(from, to, 0)
              [] OTHER -> lexer.err = "LexerError"

\* the FLOAT 2.5 has been scanned and the text goes on after the run
C12_Witness ==
    /\ last.op \in Scans /\ Ok(lexer)
    /\ last.pre.pos < Len(text) /\ is_digit(text[last.pre.pos + 1])
    /\ lexer.current_token.type = FLOAT
    /\ lexer.current_token.scale = 1
    /\ lexer.current_token.num = 25
    /\ lexer.pos < Len(text)

\* C13: use_saved_state is never called on an empty snapshot stack, and every
\* operation that returns leaves the stack as it found it (empty after the
\* construction and after parse), so that each snapshot is popped by the call
\* that pushed it; an operation that raised has popped no snapshot of its
\* callers.
C13_SnapshotStackSafety ==
    /\ ~lexer.underflow
    /\ last.op # "new" =>
          /\ Ok(lexer) => lexer.saved = last.pre.saved
          /\ Len(lexer.saved) >= Len(last.pre.saved)
          /\ SubSeq(lexer.saved, 1, Len(last.pre.saved)) = last.pre.saved
    /\ (last.op \in {"__init__", "parse"} /\ Ok(lexer)) => lexer.saved = <<>>

\* parse has ended in a parser error, after the diagnostic capture has saved
\* and restored the lexer
C13_Witness ==
    /\ last.op = "parse"
    /\ lexer.err = "ParserError"
    /\ lexer.saved = <<>>
    /\ lexer.pos < Len(text)

\* the positions of the newline characters in text[1 .. p]
Newlines(p) == {i \in 1 .. p : text[i] = "\n"}

\* the number of characters of text[1 .. p] after its last newline
AfterLastNewline(p) == p - (CHOOSE i \in Newlines(p) \cup {0} : \A j \in Newlines(p) : j <= i)

\* C14 as claimed: after the construction and after every go_forward,
\* peek_next_token, next_characters_are and parser probe that returns, lineno
\* and column are those of the cursor.
C14_LineColumnFollowCursor ==
    (/\ last.op \in Scans \cup Probes \cup {"peek_next_token"}
     /\ Ok(lexer)
     /\ lexer.pos <= Len(text)) =>
        /\ lexer.lineno = 1 + Cardinality(Newlines(lexer.pos))
        /\ lexer.column = 1 + AfterLastNewline(lexer.pos)

\* C15: when peek_next_token returns, pos and current_token are what they
\* were before the call, and the token returned is the one the next
\* go_forward makes current.
C15_PeekIsPure ==
    (last.op = "peek_next_token" /\ Ok(lexer)) =>
        /\ lexer.pos = last.pre.pos
        /\ lexer.current_token = last.pre.current_token
        /\ LET g == Call("go_forward", lexer, <<>>) IN
           Ok(g) /\ g.current_token = last.tok

\* a peek has returned an ID that differs from the current token, with text
\* left after the cursor
C15_Witness ==
    /\ last.op = "peek_next_token" /\ Ok(lexer)
    /\ last.tok.type = ID
    /\ last.tok # lexer.current_token
    /\ lexer.current_token.type # EOF
    /\ lexer.pos < Len(text)

\* a line comment opens at position p
LineCommentAt(p) == p + 1 < Len(text) /\ text[p + 1] = "/" /\ text[p + 2] = "/"

\* the position after the first newline from p on, or the end of the text
RECURSIVE LineEnd(_)
LineEnd(p) ==
    IF p >= Len(text) THEN Len(text)
    ELSE IF text[p + 1] = "\n" THEN p + 1
    ELSE LineEnd(p + 1)

\* C16 as claimed: a scan that starts at // never raises over the comment and
\* never moves the cursor beyond the end of the text: a comment that ends
\* with the text gives EOF at the end of the text, and after a comment that
\* ends with a newline the scan goes on as a scan from the next line does.
C16_LineCommentSkipped ==
    (last.op \in Scans /\ LineCommentAt(last.pre.pos)) =>
        LET e == LineEnd(last.pre.pos) IN
        /\ lexer.pos <= Len(text)
        /\ IF e > 0 /\ text[e] = "\n"
           THEN lexer = get_next_token([last.pre EXCEPT !.pos = e, !.lineno = @ + 1,
                                                       !.column = 1])
           ELSE /\ Ok(lexer)
                /\ lexer.current_token.type = EOF
                /\ lexer.pos = Len(text)

====
